---- MODULE Spec2Model ----
(***************************************************************************)
(* Model of build_site.py: fetch the FAA NAS status feed, extract airport  *)
(* events from the parsed XML tree, de-duplicate and sort them, render the *)
(* bulletin and write docs/index.html.                                     *)
(*                                                                         *)
(* Python values are records [t, s, n, kids]: t is the Python type         *)
(* ("none", "str", "int", "dict", "list"), s the characters of a str, n    *)
(* the value of an int, kids the entries of a dict (in insertion order,    *)
(* each [k |-> key, v |-> value]) or the elements of a list (k is empty).  *)
(* A Python str is the sequence of its characters.                         *)
(***************************************************************************)
EXTENDS Integers, Sequences, FiniteSets, TLC

VARIABLES
    pc,          \* position of main(): "start", "fetched", "parsed", "done"
    response,    \* what requests.get met: [outcome, body]
    xml_text,    \* main's xml_text: the fetched body, or None
    now,         \* main's now (0 until the clock is read)
    raw_events,  \* parse_events_from_xml's events, before de-duplication
    deduped,     \* parse_events_from_xml's deduped, before the sort
    events,      \* main's events
    parse_raised,\* whether parse_events_from_xml raised in this run
    html_text,   \* main's html_text
    out_file,    \* content of docs/index.html (NoFile until written)
    n_writes,    \* number of write_html calls
    called,      \* functions main has invoked so far
    stderr,      \* diagnostics printed to sys.stderr
    exit_ok,     \* main returned normally
    fk_obj,      \* find_all_key harness: obj
    fk_key,      \* find_all_key harness: key_name
    fk_out,      \* find_all_key harness: returned list
    fk_done,     \* find_all_key harness: call made
    fr_raw,      \* friendly_reason harness: raw
    fr_out,      \* friendly_reason harness: returned value
    fr_done      \* friendly_reason harness: call made

mainVars == <<pc, response, xml_text, now, raw_events, deduped, events,
              parse_raised, html_text, out_file, n_writes, called, stderr, exit_ok>>
fkVars == <<fk_obj, fk_key, fk_out, fk_done>>
frVars == <<fr_raw, fr_out, fr_done>>
vars == <<mainVars, fkVars, frVars>>

----------------------------------------------------------------------------
(* Python values *)

NoneV == [t |-> "none", s |-> <<>>, n |-> 0, kids |-> <<>>]
StrV(cs) == [t |-> "str", s |-> cs, n |-> 0, kids |-> <<>>]
IntV(i) == [t |-> "int", s |-> <<>>, n |-> i, kids |-> <<>>]
DictV(items) == [t |-> "dict", s |-> <<>>, n |-> 0, kids |-> items]
ListV(elems) ==
    [t |-> "list", s |-> <<>>, n |-> 0,
     kids |-> [i \in 1..Len(elems) |-> [k |-> <<>>, v |-> elems[i]]]]
Item(key, val) == [k |-> key, v |-> val]

\* Python truth value: None, "", 0, {} and [] are false.
Truthy(x) ==
    CASE x.t = "none" -> FALSE
      [] x.t = "str" -> x.s # <<>>
      [] x.t = "int" -> x.n # 0
      [] OTHER -> x.kids # <<>>

\* a or b
Or(a, b) == IF Truthy(a) THEN a ELSE b

\* isinstance(x, dict)
IsDict(x) == x.t = "dict"

\* d.get(key): the value stored under key, None when the key is absent.
Get(d, key) ==
    IF \E i \in 1..Len(d.kids) : d.kids[i].k = key
    THEN d.kids[CHOOSE i \in 1..Len(d.kids) : d.kids[i].k = key].v
    ELSE NoneV

\* Whether hash(x) succeeds: dict and list are unhashable.
Hashable(x) == x.t \notin {"dict", "list"}

----------------------------------------------------------------------------
(* Characters *)

Digits == <<"0", "1", "2", "3", "4", "5", "6", "7", "8", "9">>
UpperCase == <<"A", "B", "C", "D", "E", "F", "G", "H", "I", "J", "K", "L", "M",
               "N", "O", "P", "Q", "R", "S", "T", "U", "V", "W", "X", "Y", "Z">>
LowerCase == <<"a", "b", "c", "d", "e", "f", "g", "h", "i", "j", "k", "l", "m",
               "n", "o", "p", "q", "r", "s", "t", "u", "v", "w", "x", "y", "z">>

\* The characters the model's strings are made of, in code point order.
CodePoints == <<"\t", " ", "!", "(", ")", "-">> \o Digits \o <<":", ";">>
              \o UpperCase \o <<"_">> \o LowerCase

InSeq(c, chars) == \E i \in 1..Len(chars) : chars[i] = c
IndexOf(c, chars) == CHOOSE i \in 1..Len(chars) : chars[i] = c

\* ord(c), up to an order-preserving renumbering.
Ord(c) == IndexOf(c, CodePoints)

IsDigit(c) == InSeq(c, Digits)
\* \w
IsWord(c) == InSeq(c, Digits) \/ InSeq(c, UpperCase) \/ InSeq(c, LowerCase) \/ c = "_"
\* \s, and what str.strip() removes
IsSpace(c) == c \in {" ", "\t"}
\* c.upper(): case-insensitive matching compares these
Upper(c) == IF InSeq(c, LowerCase) THEN UpperCase[IndexOf(c, LowerCase)] ELSE c

\* a < b on str: lexicographic by code point, a proper prefix first.
RECURSIVE StrLess(_, _)
StrLess(a, b) ==
    IF b = <<>> THEN FALSE
    ELSE IF a = <<>> THEN TRUE
    ELSE IF a[1] # b[1] THEN Ord(a[1]) < Ord(b[1])
    ELSE StrLess(Tail(a), Tail(b))

StrLeq(a, b) == a = b \/ StrLess(a, b)

----------------------------------------------------------------------------
(* Tree search *)

RECURSIVE find_all_key(_, _), FindInDict(_, _, _), FindInList(_, _, _)
\* As FindInDict, a matched value not searched for further matches.
FindInDictShallow(items, key_name, i) ==
    IF i > Len(items) THEN <<>>
    ELSE (IF items[i].k = key_name THEN <<items[i].v>>
          ELSE find_all_key(items[i].v, key_name))
         \o FindInDict(items, key_name, i + 1)
\* for k, v in obj.items(): match, then descend
FindInDict(items, key_name, i) ==
    IF i > Len(items) THEN <<>>
    ELSE (IF items[i].k = key_name THEN <<items[i].v>> ELSE <<>>)
         \o find_all_key(items[i].v, key_name)
         \o FindInDict(items, key_name, i + 1)
\* for v in obj: descend
FindInList(items, key_name, i) ==
    IF i > Len(items) THEN <<>>
    ELSE find_all_key(items[i].v, key_name) \o FindInList(items, key_name, i + 1)
find_all_key(obj, key_name) ==
    IF obj.t = "dict" THEN FindInDict(obj.kids, key_name, 1)
    ELSE IF obj.t = "list" THEN FindInList(obj.kids, key_name, 1)
    ELSE <<>>

\* ensure_list(x)
ensure_list(x) ==
    IF x.t = "none" THEN <<>>
    ELSE IF x.t = "list" THEN [i \in 1..Len(x.kids) |-> x.kids[i].v]
    ELSE <<x>>

----------------------------------------------------------------------------
(* Text normalisation *)

\* to_int_safe's int(m.group()): the decimal value of a run of digits
RECURSIVE DigitsValue(_, _)
DigitsValue(ds, acc) ==
    IF ds = <<>> THEN acc
    ELSE DigitsValue(Tail(ds), acc * 10 + (IndexOf(ds[1], Digits) - 1))

\* Character classes of the regular expressions and of strip()
InClass(c, cls) ==
    CASE cls = "digit" -> IsDigit(c)            \* \d
      [] cls = "space" -> IsSpace(c)            \* \s, strip()
      [] cls = "nonblank" -> c # " "            \* [^ ]
      [] cls = "trim" -> c \in {" ", "-", ":", ";"}   \* strip(" -:;")

\* End (exclusive) of the run of characters of class cls that starts at i.
RECURSIVE RunEnd(_, _, _)
RunEnd(txt, i, cls) ==
    IF i <= Len(txt) /\ InClass(txt[i], cls) THEN RunEnd(txt, i + 1, cls) ELSE i

\* to_int_safe(s): the first run of decimal digits of str(s), None without one
to_int_safe(s) ==
    IF ~Truthy(s) THEN NoneV
    ELSE IF \E i \in 1..Len(s.s) : IsDigit(s.s[i])
    THEN LET first == CHOOSE i \in 1..Len(s.s) :
                          IsDigit(s.s[i]) /\ \A j \in 1..(i - 1) : ~IsDigit(s.s[j])
         IN IntV(DigitsValue(SubSeq(s.s, first, RunEnd(s.s, first, "digit") - 1), 0))
    ELSE NoneV

\* txt.strip(chars): drop the leading and the trailing characters of class cls
RECURSIVE LStrip(_, _), RStrip(_, _)
LStrip(txt, cls) ==
    IF txt # <<>> /\ InClass(txt[1], cls) THEN LStrip(Tail(txt), cls) ELSE txt
RStrip(txt, cls) ==
    IF txt # <<>> /\ InClass(txt[Len(txt)], cls)
    THEN RStrip(SubSeq(txt, 1, Len(txt) - 1), cls) ELSE txt
Strip(txt, cls) == RStrip(LStrip(txt, cls), cls)

\* re.sub(r"!\w+[^ ]* ?", "", txt): a "!" followed by a word character is removed
\* with everything up to the next blank, and that one blank.
RECURSIVE StripCodes(_, _)
StripCodes(txt, i) ==
    IF i > Len(txt) THEN <<>>
    ELSE IF txt[i] = "!" /\ i + 1 <= Len(txt) /\ IsWord(txt[i + 1])
    THEN LET j == RunEnd(txt, i + 1, "nonblank")
         IN StripCodes(txt, IF j <= Len(txt) THEN j + 1 ELSE j)
    ELSE <<txt[i]>> \o StripCodes(txt, i + 1)

\* \b at position i: exactly one of txt[i-1], txt[i] is a word character
WordAt(txt, i) == i >= 1 /\ i <= Len(txt) /\ IsWord(txt[i])
Boundary(txt, i) == WordAt(txt, i - 1) # WordAt(txt, i)

\* The literal lit matches at i, ignoring case (between \b when bounded).
MatchAt(lit, txt, i, bounded) ==
    /\ i + Len(lit) - 1 <= Len(txt)
    /\ \A j \in 1..Len(lit) : Upper(txt[i + j - 1]) = Upper(lit[j])
    /\ bounded => (Boundary(txt, i) /\ Boundary(txt, i + Len(lit)))

\* re.sub(pat, rep, txt, flags=re.IGNORECASE) for a pattern that is an ordered
\* alternation of literals: leftmost match, first alternative that matches.
RECURSIVE ReSub(_, _, _, _, _)
ReSub(alts, bounded, rep, txt, i) ==
    IF i > Len(txt) THEN <<>>
    ELSE IF \E a \in 1..Len(alts) : MatchAt(alts[a], txt, i, bounded)
    THEN LET a == CHOOSE a \in 1..Len(alts) :
                      /\ MatchAt(alts[a], txt, i, bounded)
                      /\ \A b \in 1..(a - 1) : ~MatchAt(alts[b], txt, i, bounded)
         IN rep \o ReSub(alts, bounded, rep, txt, i + Len(alts[a]))
    ELSE <<txt[i]>> \o ReSub(alts, bounded, rep, txt, i + 1)

P_GDP == <<"G", "D", "P">>
P_GS == <<"G", "S">>
P_AFP == <<"A", "F", "P">>
P_WX == <<"W", "X">>
P_WEATHER == <<"W", "E", "A", "T", "H", "E", "R">>
P_VOLUME == <<"V", "O", "L", "U", "M", "E">>
P_LOW_CEILINGS == <<"L", "O", "W", " ", "C", "E", "I", "L", "I", "N", "G", "S">>
P_LOW_CEILING == <<"L", "O", "W", " ", "C", "E", "I", "L", "I", "N", "G">>
P_LOW_VISIBILITY == <<"L", "O", "W", " ", "V", "I", "S", "I", "B", "I", "L", "I", "T", "Y">>
P_LOW_VIS == <<"L", "O", "W", " ", "V", "I", "S">>
P_DEICE == <<"D", "E", "I", "C", "E">>
P_DEICING == <<"D", "E", "I", "C", "I", "N", "G">>
P_RWY == <<"R", "W", "Y">>
P_RUNWAY == <<"R", "U", "N", "W", "A", "Y">>
P_TFR == <<"T", "F", "R">>
R_GDP == <<"G", "r", "o", "u", "n", "d", " ", "D", "e", "l", "a", "y", " ", "P", "r", "o", "g", "r", "a", "m">>
R_GS == <<"G", "r", "o", "u", "n", "d", " ", "S", "t", "o", "p">>
\* "U+2011" stands for the one character NON-BREAKING HYPHEN
R_AFP == <<"A", "i", "r", "s", "p", "a", "c", "e", " ", "F", "l", "o", "w", " ", "P", "r", "o", "g", "r", "a", "m", " ", "(", "e", "n", "U+2011",
           "r", "o", "u", "t", "e", " ", "c", "o", "n", "s", "t", "r", "a", "i", "n", "t", ")">>
R_WX == <<"w", "e", "a", "t", "h", "e", "r">>
R_VOLUME == <<"h", "i", "g", "h", " ", "t", "r", "a", "f", "f", "i", "c", " ", "v", "o", "l", "u", "m", "e">>
R_LOW_CEILING == <<"l", "o", "w", " ", "c", "l", "o", "u", "d", "s">>
R_LOW_VIS == <<"l", "o", "w", " ", "v", "i", "s", "i", "b", "i", "l", "i", "t", "y">>
R_DEICE == <<"d", "e", "i", "c", "i", "n", "g", " ", "o", "p", "e", "r", "a", "t", "i", "o", "n", "s">>
R_RWY == <<"r", "u", "n", "w", "a", "y">>
R_TFR == <<"t", "e", "m", "p", "o", "r", "a", "r", "y", " ", "f", "l", "i", "g", "h", "t", " ", "r", "e", "s", "t", "r", "i", "c", "t", "i", "o", "n">>

\* friendly_reason's repl: [alts, bounded, rep] in the order applied; X? at the
\* end of a pattern is the alternation of the pattern with X, then without.
repl == <<
    [alts |-> <<P_GDP>>, bounded |-> TRUE, rep |-> R_GDP],
    [alts |-> <<P_GS>>, bounded |-> TRUE, rep |-> R_GS],
    [alts |-> <<P_AFP>>, bounded |-> TRUE, rep |-> R_AFP],
    [alts |-> <<P_WX, P_WEATHER>>, bounded |-> FALSE, rep |-> R_WX],
    [alts |-> <<P_VOLUME>>, bounded |-> FALSE, rep |-> R_VOLUME],
    [alts |-> <<P_LOW_CEILINGS, P_LOW_CEILING>>, bounded |-> FALSE, rep |-> R_LOW_CEILING],
    [alts |-> <<P_LOW_VISIBILITY, P_LOW_VIS>>, bounded |-> FALSE, rep |-> R_LOW_VIS],
    [alts |-> <<P_DEICE, P_DEICING>>, bounded |-> FALSE, rep |-> R_DEICE],
    [alts |-> <<P_RWY, P_RUNWAY>>, bounded |-> FALSE, rep |-> R_RWY],
    [alts |-> <<P_TFR>>, bounded |-> FALSE, rep |-> R_TFR] >>

\* for pat, rep in repl: txt = re.sub(pat, rep, txt, flags=re.IGNORECASE)
RECURSIVE ApplyRepl(_, _)
ApplyRepl(txt, r) ==
    IF r > Len(repl) THEN txt
    ELSE ApplyRepl(ReSub(repl[r].alts, repl[r].bounded, repl[r].rep, txt, 1), r + 1)

\* re.sub(r"\s+", " ", txt)
RECURSIVE SquashSpace(_, _)
SquashSpace(txt, i) ==
    IF i > Len(txt) THEN <<>>
    ELSE IF IsSpace(txt[i]) THEN <<" ">> \o SquashSpace(txt, RunEnd(txt, i, "space"))
    ELSE <<txt[i]>> \o SquashSpace(txt, i + 1)

\* friendly_reason's txt just before the return
CleanReason(raw) ==
    Strip(SquashSpace(ApplyRepl(Strip(StripCodes(raw, 1), "space"), 1), 1), "trim")

\* As ReasonResult, without the fallback to raw.
ReasonResultNoFallback(txt, raw) == StrV(txt)

\* return txt or raw
ReasonResult(txt, raw) == IF txt # <<>> THEN StrV(txt) ELSE raw

\* friendly_reason(raw), raw a str or None
friendly_reason(raw) ==
    IF ~Truthy(raw) THEN NoneV ELSE ReasonResult(CleanReason(raw.s), raw)

----------------------------------------------------------------------------
(* Event extraction *)

K_Name == <<"N", "a", "m", "e">>
K_Delay_type == <<"D", "e", "l", "a", "y", "_", "t", "y", "p", "e">>
K_Airport == <<"A", "i", "r", "p", "o", "r", "t">>
K_ARPT == <<"A", "R", "P", "T">>
K_Airport_Code == <<"A", "i", "r", "p", "o", "r", "t", "_", "C", "o", "d", "e">>
K_IATA == <<"I", "A", "T", "A">>
K_Average_Delay == <<"A", "v", "e", "r", "a", "g", "e", "_", "D", "e", "l", "a", "y">>
K_Avg_Delay == <<"A", "v", "g", "_", "D", "e", "l", "a", "y">>
K_Delay == <<"D", "e", "l", "a", "y">>
K_Trend == <<"T", "r", "e", "n", "d">>
K_Reason == <<"R", "e", "a", "s", "o", "n">>
K_Start_Time == <<"S", "t", "a", "r", "t", "_", "T", "i", "m", "e">>
K_StartTime == <<"S", "t", "a", "r", "t", "T", "i", "m", "e">>
K_Date == <<"D", "a", "t", "e">>
K_End_Time == <<"E", "n", "d", "_", "T", "i", "m", "e">>
K_EndTime == <<"E", "n", "d", "T", "i", "m", "e">>
SuffixList == <<"_", "L", "i", "s", "t">>
S_UNK == <<"U", "N", "K">>
S_Event == <<"E", "v", "e", "n", "t">>
S_GroundDelayPrograms == <<"G", "r", "o", "u", "n", "d", " ", "D", "e", "l", "a", "y", " ", "P", "r", "o", "g", "r", "a", "m", "s">>
S_GroundDelayProgram == <<"G", "r", "o", "u", "n", "d", " ", "D", "e", "l", "a", "y", " ", "P", "r", "o", "g", "r", "a", "m">>
S_GroundStops == <<"G", "r", "o", "u", "n", "d", " ", "S", "t", "o", "p", "s">>
S_GroundStop == <<"G", "r", "o", "u", "n", "d", " ", "S", "t", "o", "p">>
S_AirportClosures == <<"A", "i", "r", "p", "o", "r", "t", " ", "C", "l", "o", "s", "u", "r", "e", "s">>
S_AirportClosure == <<"A", "i", "r", "p", "o", "r", "t", " ", "C", "l", "o", "s", "u", "r", "e">>
S_DepartureDelays == <<"D", "e", "p", "a", "r", "t", "u", "r", "e", " ", "D", "e", "l", "a", "y", "s">>
S_DepartureDelay == <<"D", "e", "p", "a", "r", "t", "u", "r", "e", " ", "D", "e", "l", "a", "y">>
S_ArrivalDelays == <<"A", "r", "r", "i", "v", "a", "l", " ", "D", "e", "l", "a", "y", "s">>
S_ArrivalDelay == <<"A", "r", "r", "i", "v", "a", "l", " ", "D", "e", "l", "a", "y">>
S_Deicing == <<"D", "e", "i", "c", "i", "n", "g">>

TYPE_ALIASES == <<
    Item(S_GroundDelayPrograms, StrV(S_GroundDelayProgram)),
    Item(S_GroundDelayProgram, StrV(S_GroundDelayProgram)),
    Item(S_GroundStops, StrV(S_GroundStop)),
    Item(S_GroundStop, StrV(S_GroundStop)),
    Item(S_AirportClosures, StrV(S_AirportClosure)),
    Item(S_AirportClosure, StrV(S_AirportClosure)),
    Item(S_DepartureDelays, StrV(S_DepartureDelay)),
    Item(S_DepartureDelay, StrV(S_DepartureDelay)),
    Item(S_ArrivalDelays, StrV(S_ArrivalDelay)),
    Item(S_ArrivalDelay, StrV(S_ArrivalDelay)),
    Item(S_Deicing, StrV(S_Deicing)) >>

\* TYPE_ALIASES.get(key, default), key hashable
AliasGet(key, default) ==
    IF key.t = "str" /\ \E i \in 1..Len(TYPE_ALIASES) : TYPE_ALIASES[i].k = key.s
    THEN TYPE_ALIASES[CHOOSE i \in 1..Len(TYPE_ALIASES) : TYPE_ALIASES[i].k = key.s].v
    ELSE default

\* name = dt_item.get("Name") if isinstance(dt_item, dict) else None
NameOf(dt_item) == IF IsDict(dt_item) THEN Get(dt_item, K_Name) ELSE NoneV

\* As StdType, every name outside the table becoming "Event".
StdTypeEventOnly(name) == AliasGet(Or(name, StrV(<<>>)), StrV(S_Event))

\* std_type = TYPE_ALIASES.get(name or "", name or "Event")
StdType(name) == AliasGet(Or(name, StrV(<<>>)), Or(name, StrV(S_Event)))

\* The lookup raises TypeError when name is an unhashable value.
StdTypeRaises(name) == ~Hashable(Or(name, StrV(<<>>)))

\* k.endswith("_List")
EndsWithList(k) ==
    Len(k) >= Len(SuffixList) /\ SubSeq(k, Len(k) - Len(SuffixList) + 1, Len(k)) = SuffixList

\* rec = {...} for one airport entry
Rec(std_type, ap) ==
    [type |-> std_type,
     airport |-> Or(Get(ap, K_ARPT), Or(Get(ap, K_Airport_Code), Or(Get(ap, K_IATA), StrV(S_UNK)))),
     avg_delay |-> to_int_safe(Or(Get(ap, K_Average_Delay), Or(Get(ap, K_Avg_Delay), Get(ap, K_Delay)))),
     trend |-> Get(ap, K_Trend),
     reason |-> friendly_reason(Get(ap, K_Reason)),
     start |-> Or(Get(ap, K_Start_Time), Or(Get(ap, K_StartTime), Get(ap, K_Date))),
     end |-> Or(Get(ap, K_End_Time), Get(ap, K_EndTime))]

\* for ap in ensure_list(airports): skip what is no dict, append rec
RECURSIVE RecsOfAirports(_, _, _)
RecsOfAirports(std_type, aps, i) ==
    IF i > Len(aps) THEN <<>>
    ELSE (IF IsDict(aps[i]) THEN <<Rec(std_type, aps[i])>> ELSE <<>>)
         \o RecsOfAirports(std_type, aps, i + 1)

\* for k, v in list(dt_item.items()): the *_List children and their Airport entries
RECURSIVE RecsOfItem(_, _, _)
RecsOfItem(std_type, items, i) ==
    IF i > Len(items) THEN <<>>
    ELSE (IF EndsWithList(items[i].k)
          THEN LET v == items[i].v
                   airports == IF IsDict(v) THEN Get(v, K_Airport) ELSE NoneV
               IN RecsOfAirports(std_type, ensure_list(airports), 1)
          ELSE <<>>)
         \o RecsOfItem(std_type, items, i + 1)

\* The dt_items of the loops over delay_types and ensure_list(dt), in order.
RECURSIVE DtItems(_, _)
DtItems(delay_types, i) ==
    IF i > Len(delay_types) THEN <<>>
    ELSE ensure_list(delay_types[i]) \o DtItems(delay_types, i + 1)

\* events after the extraction loops (when no lookup raised)
RECURSIVE RecsOfDtItems(_, _)
RecsOfDtItems(dt_items, i) ==
    IF i > Len(dt_items) THEN <<>>
    ELSE (IF IsDict(dt_items[i])
          THEN RecsOfItem(StdType(NameOf(dt_items[i])), dt_items[i].kids, 1)
          ELSE <<>>)
         \o RecsOfDtItems(dt_items, i + 1)

ExtractEvents(data) == RecsOfDtItems(DtItems(find_all_key(data, K_Delay_type), 1), 1)

ExtractRaises(data) ==
    LET dt_items == DtItems(find_all_key(data, K_Delay_type), 1)
    IN \E i \in 1..Len(dt_items) : StdTypeRaises(NameOf(dt_items[i]))

----------------------------------------------------------------------------
(* De-duplication and sort *)

\* key = (e["type"], e["airport"], e.get("reason") or "")
DedupKey(e) == <<e.type, e.airport, Or(e.reason, StrV(<<>>))>>

\* Hashing the key raises TypeError when a component is unhashable.
DedupRaises(evts) ==
    \E i \in 1..Len(evts) : ~Hashable(evts[i].type) \/ ~Hashable(evts[i].airport)

\* As Fresh, the membership test lost: every record is kept.
FreshAlways(key, seen) == TRUE

\* whether e is kept: if key not in seen
Fresh(key, seen) == key \notin seen

\* for e in events: if key not in seen: seen.add(key); deduped.append(e)
RECURSIVE Dedup(_, _, _)
Dedup(evts, i, seen) ==
    IF i > Len(evts) THEN <<>>
    ELSE LET key == DedupKey(evts[i]) IN
         IF Fresh(key, seen)
         THEN <<evts[i]>> \o Dedup(evts, i + 1, seen \cup {key})
         ELSE Dedup(evts, i + 1, seen)

\* e["avg_delay"] or 0
AvgOrZero(e) == IF Truthy(e.avg_delay) THEN e.avg_delay.n ELSE 0

\* As SortKeyLess, the delay not negated: ascending by delay.
SortKeyLessAscending(a, b) ==
    \/ AvgOrZero(a) < AvgOrZero(b)
    \/ /\ AvgOrZero(a) = AvgOrZero(b)
       /\ StrLess(a.airport.s, b.airport.s)

\* (-(e["avg_delay"] or 0), e["airport"]) of a is less than that of b
SortKeyLess(a, b) ==
    \/ -AvgOrZero(a) < -AvgOrZero(b)
    \/ /\ AvgOrZero(a) = AvgOrZero(b)
       /\ StrLess(a.airport.s, b.airport.s)

\* list.sort is stable: e goes after every element whose key is not greater.
RECURSIVE InsertSorted(_, _)
\* As InsertSorted, e going before the elements of equal key: a sort that is
\* not stable.
InsertSortedUnstable(sorted, e) ==
    IF sorted = <<>> THEN <<e>>
    ELSE IF ~SortKeyLess(sorted[1], e) THEN <<e>> \o sorted
    ELSE <<sorted[1]>> \o InsertSorted(Tail(sorted), e)
InsertSorted(sorted, e) ==
    IF sorted = <<>> THEN <<e>>
    ELSE IF SortKeyLess(e, sorted[1]) THEN <<e>> \o sorted
    ELSE <<sorted[1]>> \o InsertSorted(Tail(sorted), e)

RECURSIVE SortEvents(_, _, _)
SortEvents(evts, i, acc) ==
    IF i > Len(evts) THEN acc
    ELSE SortEvents(evts, i + 1, InsertSorted(acc, evts[i]))

----------------------------------------------------------------------------
(* parse_events_from_xml *)

\* A text is [kind, lt, tree]: kind "none" (no text, None), "empty" (""),
\* "malformed" (text that is no well-formed XML; lt: it starts with "<") or
\* "xml" (a well-formed document; tree is what xmltodict.parse returns for it).
NoText == [kind |-> "none", lt |-> FALSE, tree |-> NoneV]
EmptyText == [kind |-> "empty", lt |-> FALSE, tree |-> NoneV]
Malformed(lt) == [kind |-> "malformed", lt |-> lt, tree |-> NoneV]
XmlText(tree) == [kind |-> "xml", lt |-> TRUE, tree |-> tree]

\* As TextFalsy, testing "xml_text is None": an empty body counts as text.
TextIsNone(text) == text.kind = "none"

\* not xml_text
TextFalsy(text) == text.kind \in {"none", "empty"}

\* xmltodict.parse(xml_text) raises on text that is no well-formed XML
XmlParseRaises(text) == text.kind # "xml"
XmlParse(text) == text.tree

\* What a call of parse_events_from_xml leaves: raised, or the returned list
\* (result) with the function's events and its deduped before the sort.
ParseRaised == [raised |-> TRUE, events |-> <<>>, deduped |-> <<>>, result |-> <<>>]
ParseReturned(evts, dd, sorted) ==
    [raised |-> FALSE, events |-> evts, deduped |-> dd, result |-> sorted]

\* lines 171-179: de-duplicate, sort, return
DedupAndSort(evts) ==
    IF DedupRaises(evts) THEN ParseRaised
    ELSE LET dd == Dedup(evts, 1, {}) IN ParseReturned(evts, dd, SortEvents(dd, 1, <<>>))

\* parse_events_from_xml(xml_text)
parse_events_from_xml(text) ==
    IF XmlParseRaises(text) THEN ParseRaised
    ELSE IF ExtractRaises(XmlParse(text)) THEN ParseRaised
    ELSE DedupAndSort(ExtractEvents(XmlParse(text)))

----------------------------------------------------------------------------
(* Rendering *)

T_GroundStop == <<"G", "r", "o", "u", "n", "d", " ", "s", "t", "o", "p", " ", "i", "n", " ", "e", "f", "f", "e", "c", "t">>
T_GroundDelay == <<"G", "r", "o", "u", "n", "d", " ", "d", "e", "l", "a", "y", " ", "p", "r", "o", "g", "r", "a", "m">>
T_Closed == <<"A", "i", "r", "p", "o", "r", "t", " ", "c", "l", "o", "s", "e", "d">>
T_Departure == <<"D", "e", "p", "a", "r", "t", "u", "r", "e", " ", "d", "e", "l", "a", "y", "s">>
T_Arrival == <<"A", "r", "r", "i", "v", "a", "l", " ", "d", "e", "l", "a", "y", "s">>
T_Deicing == <<"D", "e", "i", "c", "i", "n", "g", " ", "i", "n", " ", "e", "f", "f", "e", "c", "t">>

\* html.escape(str(s)) on the characters of a string
RECURSIVE EscChars(_)
EscChars(cs) ==
    IF cs = <<>> THEN <<>>
    ELSE (CASE cs[1] = "&" -> <<"&", "a", "m", "p", ";">>
            [] cs[1] = "<" -> <<"&", "l", "t", ";">>
            [] cs[1] = ">" -> <<"&", "g", "t", ";">>
            [] cs[1] = "\"" -> <<"&", "q", "u", "o", "t", ";">>
            [] cs[1] = "'" -> <<"&", "#", "x", "2", "7", ";">>
            [] OTHER -> <<cs[1]>>)
         \o EscChars(Tail(cs))
esc(x) == IF x.t = "str" THEN StrV(EscChars(x.s)) ELSE x

\* summarize_event(evt), escaped: the parts of the sentence. what is the phrase
\* after "<airport>: "; avg, reason and start are None when the sentence leaves
\* them out.
summarize_event(evt) ==
    LET typ == evt.type
        what == CASE typ = StrV(S_GroundStop) -> StrV(T_GroundStop)
                  [] typ = StrV(S_GroundDelayProgram) -> StrV(T_GroundDelay)
                  [] typ = StrV(S_AirportClosure) -> StrV(T_Closed)
                  [] typ = StrV(S_DepartureDelay) -> StrV(T_Departure)
                  [] typ = StrV(S_ArrivalDelay) -> StrV(T_Arrival)
                  [] typ = StrV(S_Deicing) -> StrV(T_Deicing)
                  [] OTHER -> Or(typ, StrV(S_Event))
        Shown(x) == IF Truthy(x) THEN esc(x) ELSE NoneV
    IN [ap |-> esc(evt.airport), what |-> esc(what), avg |-> Shown(evt.avg_delay),
        reason |-> Shown(evt.reason), start |-> Shown(evt.start)]

Summaries(evts) == [i \in 1..Len(evts) |-> summarize_event(evts[i])]

\* events[:8]
TopN == 8
Top(evts) == SubSeq(evts, 1, IF Len(evts) < TopN THEN Len(evts) ELSE TopN)

\* counts[e["type"]]
CountOf(evts, typ) == Cardinality({i \in 1..Len(evts) : evts[i].type = typ})
TypesOf(evts) == {evts[i].type : i \in 1..Len(evts)}

\* sorted(counts.items(), key=lambda kv: (-kv[1], kv[0]))
RECURSIVE Pills(_, _)
Pills(evts, types) ==
    IF types = {} THEN <<>>
    ELSE LET Before(a, b) ==
                 \/ CountOf(evts, a) > CountOf(evts, b)
                 \/ CountOf(evts, a) = CountOf(evts, b) /\ StrLess(a.s, b.s)
             first == CHOOSE a \in types : \A b \in types \ {a} : Before(a, b)
         IN <<[label |-> esc(first), n |-> CountOf(evts, first)]>>
            \o Pills(evts, types \ {first})

\* for typ in sorted(by_type.keys()): the section of typ, its events in order
RECURSIVE Sections(_, _)
Sections(evts, types) ==
    IF types = {} THEN <<>>
    ELSE LET first == CHOOSE a \in types : \A b \in types \ {a} : StrLess(a.s, b.s)
         IN <<[typ |-> esc(first),
               lis |-> Summaries(SelectSeq(evts, LAMBDA e : e.type = first))]>>
            \o Sections(evts, types \ {first})

\* As NoHeadlines, the placeholder never chosen.
NoHeadlinesNever(items) == FALSE

\* items: the headlines, or the placeholder when there is none
NoHeadlines(items) == items = <<>>

\* A page is [kind, stamp, pills, items, no_items, sections, no_sections]:
\* no_items stands for "<li>No active airport events right now.</li>" in
\* place of the headlines, no_sections for "<p>No active events.</p>".
NoPage ==
    [kind |-> "none", stamp |-> 0, pills |-> <<>>, items |-> <<>>, no_items |-> FALSE,
     sections |-> <<>>, no_sections |-> FALSE]

\* render_html(events, generated_at)
render_html(evts, generated_at) ==
    LET items == Summaries(Top(evts))
        sections == Sections(evts, TypesOf(evts))
    IN [kind |-> "bulletin", stamp |-> generated_at,
        pills |-> Pills(evts, TypesOf(evts)),
        items |-> items, no_items |-> NoHeadlines(items),
        sections |-> sections, no_sections |-> (sections = <<>>)]

\* main's fallback page: "Could not retrieve FAA data at {now.isoformat()}Z. ..."
FallbackPage(stamp) ==
    [kind |-> "fallback", stamp |-> stamp, pills |-> <<>>, items |-> <<>>,
     no_items |-> FALSE, sections |-> <<>>, no_sections |-> FALSE]

----------------------------------------------------------------------------
(* The feeds main() is run on *)

\* Number of Delay_type and Airport elements of a feed
MaxElements == 4

K_Root == <<"A", "I", "R", "P", "O", "R", "T", "_", "S", "T", "A", "T", "U", "S", "_", "I", "N", "F", "O", "R", "M", "A", "T", "I", "O", "N">>
K_Update_Time == <<"U", "p", "d", "a", "t", "e", "_", "T", "i", "m", "e">>
K_Ground_Stop_List == <<"G", "r", "o", "u", "n", "d", "_", "S", "t", "o", "p", "_", "L", "i", "s", "t">>
S_JFK == <<"J", "F", "K">>
S_LGA == <<"L", "G", "A">>
S_BOS == <<"B", "O", "S">>
S_WX == <<"W", "X">>
S_FDC == <<"!", "F", "D", "C">>
S_45min == <<"4", "5", " ", "m", "i", "n", "u", "t", "e", "s">>
S_0min == <<"0", " ", "m", "i", "n">>
S_Taxi == <<"T", "a", "x", "i">>
S_Up == <<"U", "p">>
S_Noon == <<"1", "2", ":", "0", "0">>

\* xmltodict's value for the children of one name: the child itself when
\* there is one, the list of them when there are several.
XmlChildren(elems) == IF Len(elems) = 1 THEN elems[1] ELSE ListV(elems)

\* <Airport> elements: mappings with differing source keys, an element with
\* only text, and an entry whose ARPT occurs twice (a list, unhashable).
AirportChoices == <<
    DictV(<<Item(K_ARPT, StrV(S_JFK)), Item(K_Reason, StrV(S_WX)),
            Item(K_Average_Delay, StrV(S_45min))>>),
    DictV(<<Item(K_ARPT, StrV(S_JFK)), Item(K_Reason, StrV(S_WX)),
            Item(K_Delay, StrV(S_0min)), Item(K_Trend, StrV(S_Up))>>),
    DictV(<<Item(K_Airport_Code, StrV(S_JFK)), Item(K_Avg_Delay, StrV(S_45min))>>),
    DictV(<<Item(K_IATA, StrV(S_BOS)), Item(K_Reason, StrV(S_FDC)),
            Item(K_Start_Time, StrV(S_Noon))>>),
    StrV(S_JFK),
    DictV(<<Item(K_ARPT, ListV(<<StrV(S_JFK), StrV(S_LGA)>>))>>) >>

\* <Name> of a block: missing, an alias, an unknown name, or two Name
\* elements (a list, unhashable).
NameChoices == <<NoneV, StrV(S_GroundStops), StrV(S_Taxi),
                 ListV(<<StrV(S_GroundStop), StrV(S_Taxi)>>)>>

\* A feed is drawn by its shape: per Delay_type element <<name, airports>>,
\* indices into NameChoices and AirportChoices; name 0 is an element with
\* only text.
RECURSIVE AirportShapes(_)
AirportShapes(n) ==
    IF n = 0 THEN {<<>>}
    ELSE {<<a>> \o r : a \in 1..Len(AirportChoices), r \in AirportShapes(n - 1)}

\* Delay_type elements of n elements in all
BlockShapes(n) ==
    {<<name, aps>> : name \in 1..Len(NameChoices), aps \in AirportShapes(n - 1)}
    \cup (IF n = 1 THEN {<<0, <<>> >>} ELSE {})

\* Sequences of Delay_type elements with at most n elements in all
RECURSIVE FeedShapes(_)
FeedShapes(n) ==
    {<<>>} \cup UNION {{<<b>> \o r : b \in BlockShapes(k), r \in FeedShapes(n - k)} : k \in 1..n}

\* A <Delay_type> element with its Name and its airports
Block(name, aps) ==
    DictV((IF name = NoneV THEN <<>> ELSE <<Item(K_Name, name)>>)
          \o <<Item(K_Ground_Stop_List,
                    IF aps = <<>> THEN NoneV
                    ELSE DictV(<<Item(K_Airport, XmlChildren(aps))>>))>>)

BlockOfShape(b) ==
    IF b[1] = 0 THEN StrV(S_Taxi)
    ELSE Block(NameChoices[b[1]], [i \in 1..Len(b[2]) |-> AirportChoices[b[2][i]]])

\* The parsed document of a feed
Feed(shape) ==
    LET blocks == [i \in 1..Len(shape) |-> BlockOfShape(shape[i])] IN
    DictV(<<Item(K_Root,
                 DictV(<<Item(K_Update_Time, StrV(S_Noon))>>
                       \o (IF blocks = <<>> THEN <<>>
                           ELSE <<Item(K_Delay_type, XmlChildren(blocks))>>)))>>)

\* What requests.get meets: an exception, a non-2xx status, or a body; ct_xml:
\* the Content-Type names xml (read only when the body does not start with "<").
FailedResponses ==
    {[outcome |-> o, ct_xml |-> FALSE, body |-> NoText] : o \in {"network_error", "http_error"}}
TextResponses ==
    {[outcome |-> "ok", ct_xml |-> c, body |-> b] :
        c \in BOOLEAN, b \in {EmptyText, Malformed(FALSE), Malformed(TRUE)}}
FeedResponse(shape) == [outcome |-> "ok", ct_xml |-> TRUE, body |-> XmlText(Feed(shape))]

\* Values of datetime.now
Clock == {1, 2}

----------------------------------------------------------------------------
(* main() *)

NoResponse == [outcome |-> "none", ct_xml |-> FALSE, body |-> NoText]

MainIdle ==
    /\ pc = "idle" /\ response = NoResponse /\ xml_text = NoText /\ now = 0
    /\ raw_events = <<>> /\ deduped = <<>> /\ events = <<>>
    /\ parse_raised = FALSE /\ html_text = NoPage /\ out_file = NoPage
    /\ n_writes = 0 /\ called = {} /\ stderr = <<>> /\ exit_ok = FALSE
FkIdle == fk_obj = NoneV /\ fk_key = <<>> /\ fk_out = <<>> /\ fk_done = FALSE
FrIdle == fr_raw = NoneV /\ fr_out = NoneV /\ fr_done = FALSE

Init ==
    /\ pc = "start" /\ response = NoResponse /\ xml_text = NoText /\ now = 0
    /\ raw_events = <<>> /\ deduped = <<>> /\ events = <<>>
    /\ parse_raised = FALSE /\ html_text = NoPage /\ out_file = NoPage
    /\ n_writes = 0 /\ called = {} /\ stderr = <<>> /\ exit_ok = FALSE
    /\ FkIdle /\ FrIdle

\* fetch_xml(url): the body, or None after an exception
fetch_xml(r) == IF r.outcome = "ok" THEN r.body ELSE NoText

\* what fetch_xml prints to sys.stderr
FetchLog(r) ==
    IF r.outcome # "ok" THEN <<"ERROR fetching">>
    ELSE IF ~r.ct_xml /\ ~r.body.lt THEN <<"Warning: response did not look like XML">>
    ELSE <<>>

\* xml_text = fetch_xml(NAS_XML_URL); now = datetime.now(timezone.utc)
Fetch ==
    /\ pc = "start"
    /\ \E tm \in Clock :
          /\ now' = tm
          /\ \/ \E r \in FailedResponses \cup TextResponses : response' = r
             \/ \E shape \in FeedShapes(MaxElements) : response' = FeedResponse(shape)
    /\ xml_text' = fetch_xml(response')
    /\ stderr' = stderr \o FetchLog(response')
    /\ called' = called \cup {"fetch_xml"}
    /\ pc' = "fetched"
    /\ UNCHANGED <<raw_events, deduped, events, parse_raised, html_text, out_file,
                   n_writes, exit_ok, fkVars, frVars>>

\* As Fallback, the return missing: main goes on to render and write.
FallbackNoReturn ==
    /\ pc = "fetched"
    /\ TextFalsy(xml_text)
    /\ html_text' = FallbackPage(now)
    /\ out_file' = html_text'
    /\ n_writes' = n_writes + 1
    /\ called' = called \cup {"write_html"}
    /\ pc' = "parsed"
    /\ UNCHANGED <<response, xml_text, now, raw_events, deduped, events, parse_raised,
                   stderr, exit_ok, fkVars, frVars>>

\* if not xml_text: write the fallback page and return
Fallback ==
    /\ pc = "fetched"
    /\ TextFalsy(xml_text)
    /\ html_text' = FallbackPage(now)
    /\ out_file' = html_text'
    /\ n_writes' = n_writes + 1
    /\ called' = called \cup {"write_html"}
    /\ exit_ok' = TRUE
    /\ pc' = "done"
    /\ UNCHANGED <<response, xml_text, now, raw_events, deduped, events, parse_raised,
                   stderr, fkVars, frVars>>

\* As Parse, without the except clause: the exception ends main.
ParseUncaught ==
    /\ pc = "fetched"
    /\ ~TextFalsy(xml_text)
    /\ \E r \in {parse_events_from_xml(xml_text)} :
       /\ parse_raised' = r.raised
       /\ raw_events' = r.events
       /\ deduped' = r.deduped
       /\ events' = r.result
       /\ pc' = IF r.raised THEN "crashed" ELSE "parsed"
    /\ called' = called \cup {"parse_events_from_xml"}
    /\ UNCHANGED <<response, xml_text, now, html_text, out_file, n_writes, exit_ok,
                   stderr, fkVars, frVars>>

\* try: events = parse_events_from_xml(xml_text)
\* except Exception: print the error; events = []
Parse ==
    /\ pc = "fetched"
    /\ ~TextFalsy(xml_text)
    /\ \E r \in {parse_events_from_xml(xml_text)} :
       /\ parse_raised' = r.raised
       /\ raw_events' = r.events
       /\ deduped' = r.deduped
       /\ events' = IF r.raised THEN <<>> ELSE r.result
       /\ stderr' = IF r.raised THEN stderr \o <<"ERROR parsing XML">> ELSE stderr
    /\ called' = called \cup {"parse_events_from_xml"}
    /\ pc' = "parsed"
    /\ UNCHANGED <<response, xml_text, now, html_text, out_file, n_writes, exit_ok,
                   fkVars, frVars>>

\* html_text = render_html(events, now); write_html(html_text, "docs/index.html")
Publish ==
    /\ pc = "parsed"
    /\ html_text' = render_html(events, now)
    /\ out_file' = html_text'
    /\ n_writes' = n_writes + 1
    /\ called' = called \cup {"render_html", "write_html"}
    /\ exit_ok' = TRUE
    /\ pc' = "done"
    /\ UNCHANGED <<response, xml_text, now, raw_events, deduped, events, parse_raised,
                   stderr, fkVars, frVars>>

Next == Fetch \/ Fallback \/ Parse \/ Publish
Spec == Init /\ [][Next]_vars

----------------------------------------------------------------------------
(* Properties of main() and parse_events_from_xml *)

\* parse_events_from_xml has returned a list in this run.
Returned == pc \in {"parsed", "done"} /\ ~parse_raised

\* (type, airport, reason-or-empty-string) of a record
ClaimKey(e) == <<e.type, e.airport, IF e.reason.t = "none" THEN StrV(<<>>) ELSE e.reason>>

\* avg_delay of a record, absent counting as 0
ClaimAvg(e) == IF e.avg_delay.t = "none" THEN 0 ELSE e.avg_delay.n

\* Index of the first extracted record with the key of raw_events[i]
FirstWithKey(i) ==
    CHOOSE j \in 1..i :
        /\ ClaimKey(raw_events[j]) = ClaimKey(raw_events[i])
        /\ \A h \in 1..(j - 1) : ClaimKey(raw_events[h]) # ClaimKey(raw_events[i])

\* C1: of the extracted records that share (type, airport, reason or ""), the
\* returned list holds the first-encountered one and no other: one record per
\* distinct key, none that was not extracted.
C1_DedupFirstSeenWins ==
    Returned =>
        /\ \A i \in 1..Len(raw_events) :
              LET first == raw_events[FirstWithKey(i)] IN
              /\ Cardinality({k \in 1..Len(events) :
                     ClaimKey(events[k]) = ClaimKey(raw_events[i])}) = 1
              /\ \E k \in 1..Len(events) : events[k] = first
              /\ raw_events[i] # first => \A k \in 1..Len(events) : events[k] # raw_events[i]
        /\ \A k \in 1..Len(events) : \E i \in 1..Len(raw_events) : events[k] = raw_events[i]

\* Two extracted records with one key and different delays, a record of another
\* key between them; the later one is dropped.
C1_Witness ==
    /\ pc = "done" /\ ~parse_raised
    /\ \E i, j \in 1..Len(raw_events) :
          /\ i + 1 < j
          /\ ClaimKey(raw_events[i]) = ClaimKey(raw_events[j])
          /\ ClaimKey(raw_events[i + 1]) # ClaimKey(raw_events[i])
          /\ raw_events[i].avg_delay # raw_events[j].avg_delay
          /\ \A k \in 1..Len(events) : events[k] # raw_events[j]
    /\ Len(events) = 2

\* C2: in the returned list every record is followed by one of smaller
\* avg_delay (absent as 0), or of equal avg_delay and an airport code that is
\* not smaller.
C2_SortOrder ==
    Returned =>
        \A k \in 1..(Len(events) - 1) :
            \/ ClaimAvg(events[k]) > ClaimAvg(events[k + 1])
            \/ /\ ClaimAvg(events[k]) = ClaimAvg(events[k + 1])
               /\ StrLeq(events[k].airport.s, events[k + 1].airport.s)

\* The sort moved records: a greater delay first, and a tie between an absent
\* delay and a delay of 0 settled by the airport code.
C2_Witness ==
    /\ pc = "done" /\ ~parse_raised
    /\ events # deduped
    /\ \E k \in 1..(Len(events) - 1) : ClaimAvg(events[k]) > ClaimAvg(events[k + 1])
    /\ \E k \in 1..(Len(events) - 1) :
          /\ events[k].avg_delay.t = "none" /\ events[k + 1].avg_delay = IntV(0)
          /\ events[k].airport # events[k + 1].airport

\* The values of the alias table
AliasValues == {TYPE_ALIASES[i].v : i \in 1..Len(TYPE_ALIASES)}
AliasKeys == {TYPE_ALIASES[i].k : i \in 1..Len(TYPE_ALIASES)}

\* The Delay_type elements of the fetched feed
FeedBlocks == ensure_list(Get(Get(XmlParse(xml_text), K_Root), K_Delay_type))

\* The type the records of a block get, by its Name
TypeForName(name) ==
    IF name.t = "none" \/ name = StrV(<<>>) THEN StrV(S_Event)
    ELSE IF name.t = "str" /\ name.s \in AliasKeys
    THEN CHOOSE v \in AliasValues : \E i \in 1..Len(TYPE_ALIASES) :
             TYPE_ALIASES[i].k = name.s /\ TYPE_ALIASES[i].v = v
    ELSE name

\* C3 as stated: every record's type is a value of the alias table or "Event".
C3_TypeInVocabulary ==
    Returned => \A k \in 1..Len(events) : events[k].type \in AliasValues \cup {StrV(S_Event)}

\* The airport entries of a block that yield a record (the feeds carry their
\* airports under Ground_Stop_List)
BlockAirports(b) ==
    IF ~IsDict(b) THEN <<>>
    ELSE LET l == Get(b, K_Ground_Stop_List)
         IN IF IsDict(l) THEN SelectSeq(ensure_list(Get(l, K_Airport)), IsDict) ELSE <<>>

\* The types of the extracted records, block by block in feed order
RECURSIVE BlockTypes(_)
BlockTypes(i) ==
    IF i > Len(FeedBlocks) THEN <<>>
    ELSE [j \in 1..Len(BlockAirports(FeedBlocks[i])) |->
              TypeForName(Get(FeedBlocks[i], K_Name))]
         \o BlockTypes(i + 1)

\* C3 amended: a record's type is the alias-table value of its block's Name
\* when the Name is a key of the table, "Event" when the Name is missing or
\* empty, and otherwise the Name itself, unchanged; de-duplication and sorting
\* leave the type as extracted.
C3_TypeAliasEventOrName ==
    Returned =>
        /\ [i \in 1..Len(raw_events) |-> raw_events[i].type] = BlockTypes(1)
        /\ \A k \in 1..Len(events) :
              \E i \in 1..Len(raw_events) :
                  events[k] = raw_events[i] /\ events[k].type = BlockTypes(1)[i]

\* Records of an aliased block and of a block with an unknown Name in one
\* returned list.
C3_Witness ==
    /\ pc = "done" /\ ~parse_raised
    /\ \E i, k \in 1..Len(events) :
          /\ events[i].type = StrV(S_GroundStop)
          /\ events[k].type = StrV(S_Taxi)

\* The fetch failed: requests.get or raise_for_status raised.
FetchFailed == response.outcome \in {"network_error", "http_error"}

\* How far main() has come
Rank(p) ==
    CASE p = "start" -> 1 [] p = "fetched" -> 2 [] p = "parsed" -> 3 [] p = "done" -> 4
      [] OTHER -> 0

\* The guards of Fetch, Fallback, Parse and Publish: main can take a step.
CanStep ==
    \/ pc = "start"
    \/ pc = "fetched" /\ TextFalsy(xml_text)
    \/ pc = "fetched" /\ ~TextFalsy(xml_text)
    \/ pc = "parsed"

\* C4: every run of main() ends having written docs/index.html exactly once
\* and returned normally, whatever the fetch and the parse met: main never
\* writes twice, has written once and returned when it is done, can always take
\* a step until then, and every step takes it further.
C4_AlwaysWritesOnceAndSucceeds ==
    /\ [](/\ n_writes <= 1
          /\ pc = "done" => (n_writes = 1 /\ exit_ok /\ out_file.kind # "none")
          /\ pc # "done" => (~exit_ok /\ CanStep))
    /\ [][Rank(pc') > Rank(pc)]_vars

\* A run whose fetch met a non-2xx status, and one whose parse raised on a
\* well-formed document, both ended with one write.
C4_Witness ==
    /\ pc = "done" /\ n_writes = 1 /\ exit_ok
    /\ response.outcome = "http_error" \/ (parse_raised /\ xml_text.kind = "xml")

\* C5: after a failed fetch main writes the fallback page with the timestamp
\* and returns normally; parse_events_from_xml and render_html are not called.
C5_FetchFailureWritesFallback ==
    FetchFailed =>
        /\ "parse_events_from_xml" \notin called /\ "render_html" \notin called
        /\ pc \in {"fetched", "done"}
        /\ pc = "done" =>
              /\ out_file = FallbackPage(now) /\ out_file.kind = "fallback"
              /\ out_file.stamp \in Clock
              /\ n_writes = 1 /\ exit_ok

\* A run that met a network error has ended.
C5_Witness ==
    /\ pc = "done" /\ response.outcome = "network_error"
    /\ out_file.kind = "fallback" /\ stderr = <<"ERROR fetching">>

\* C6: when the fetch succeeds and parsing raises, main goes on with no events
\* and writes the bulletin render_html makes of them: no headline, the
\* placeholder in their place.
C6_ParseFailureRendersEmptyBulletin ==
    (pc = "done" /\ parse_raised) =>
        /\ events = <<>>
        /\ "render_html" \in called
        /\ out_file.kind = "bulletin" /\ out_file.stamp = now
        /\ out_file.items = <<>> /\ out_file.no_items
        /\ out_file.sections = <<>> /\ out_file.pills = <<>>
        /\ n_writes = 1 /\ exit_ok

\* A run on malformed text has ended with the placeholder page.
C6_Witness ==
    /\ pc = "done" /\ parse_raised /\ xml_text.kind = "malformed"
    /\ out_file.no_items /\ stderr[Len(stderr)] = "ERROR parsing XML"

\* C7 as stated: after a failed fetch and after a failed parse alike the page
\* written is the fallback page.
C7_FallbackOnFetchOrParseFailure ==
    (pc = "done" /\ (FetchFailed \/ parse_raised)) =>
        out_file.kind = "fallback" /\ out_file.stamp = now

\* C7 amended: the page written is the fallback page, with the timestamp,
\* exactly when the fetch failed or returned an empty body; when parsing
\* raised it is the bulletin, with the timestamp and without events.
C7_FallbackOnlyWithoutText ==
    pc = "done" =>
        /\ out_file.stamp = now
        /\ out_file.kind = "fallback" <=> (FetchFailed \/ response.body.kind = "empty")
        /\ parse_raised => (out_file.kind = "bulletin" /\ out_file.items = <<>>)

\* Runs that ended on an empty body, and on a document whose parsing raised.
C7_Witness ==
    /\ pc = "done"
    /\ \/ response.outcome = "ok" /\ response.body.kind = "empty" /\ out_file.kind = "fallback"
       \/ parse_raised /\ xml_text.kind = "xml" /\ out_file.kind = "bulletin"

\* (-avg_delay, airport) of two records are equal
SameSortKey(a, b) == ClaimAvg(a) = ClaimAvg(b) /\ a.airport = b.airport

\* Position of a record of deduped in the returned list
PosInEvents(e) == CHOOSE k \in 1..Len(events) : events[k] = e

\* C9: the returned list is a permutation of the de-duplicated list, and two
\* records of equal sort key keep the order they have in it.
C9_SortStablePermutation ==
    Returned =>
        /\ Len(events) = Len(deduped)
        /\ \A i \in 1..Len(deduped) :
              Cardinality({k \in 1..Len(events) : events[k] = deduped[i]})
                  = Cardinality({j \in 1..Len(deduped) : deduped[j] = deduped[i]})
        /\ \A i, j \in 1..Len(deduped) :
              (i < j /\ SameSortKey(deduped[i], deduped[j]))
                  => PosInEvents(deduped[i]) < PosInEvents(deduped[j])

\* Two records of equal sort key in a list the sort reordered.
C9_Witness ==
    /\ pc = "done" /\ ~parse_raised
    /\ events # deduped
    /\ \E i, j \in 1..Len(deduped) :
          i < j /\ deduped[i] # deduped[j] /\ SameSortKey(deduped[i], deduped[j])

----------------------------------------------------------------------------
(* Harness for find_all_key: every tree of at most MaxNodes values *)

MaxNodes == 4

FkKeys == {K_Delay_type, K_Name}
FkScalars == {NoneV, StrV(<<"x">>)}

\* Sequences of n distinct keys: the keys of a dict in insertion order.
RECURSIVE KeySeqs(_, _)
KeySeqs(n, keys) ==
    IF n = 0 THEN {<<>>}
    ELSE UNION {{<<k>> \o r : r \in KeySeqs(n - 1, keys \ {k})} : k \in keys}

RECURSIVE TreesOfSize(_), ForestsOfSize(_)
\* Sequences of trees with n values in total.
ForestsOfSize(n) ==
    IF n = 0 THEN {<<>>}
    ELSE UNION {{<<tr>> \o f : tr \in TreesOfSize(k), f \in ForestsOfSize(n - k)} : k \in 1..n}
TreesOfSize(n) ==
    IF n = 1 THEN FkScalars \cup {DictV(<<>>), ListV(<<>>)}
    ELSE LET fs == ForestsOfSize(n - 1) IN
         {ListV(f) : f \in fs}
         \cup UNION {{DictV([i \in 1..Len(f) |-> Item(ks[i], f[i])]) :
                        ks \in KeySeqs(Len(f), FkKeys)} : f \in fs}

\* Trees of at most n values
FkTrees(n) == UNION {TreesOfSize(k) : k \in 1..n}

InitFind ==
    /\ fk_obj \in FkTrees(MaxNodes)
    /\ fk_key \in FkKeys
    /\ fk_out = <<>>
    /\ fk_done = FALSE
    /\ MainIdle /\ FrIdle

\* out = find_all_key(obj, key_name)
FindCall ==
    /\ ~fk_done
    /\ fk_out' = find_all_key(fk_obj, fk_key)
    /\ fk_done' = TRUE
    /\ UNCHANGED <<fk_obj, fk_key, mainVars, frVars>>

NextFind == FindCall
SpecFind == InitFind /\ [][NextFind]_vars

\* Positions of a tree: the index paths from the root, the root being <<>>.
RECURSIVE PathsOf(_)
PathsOf(obj) ==
    {<<>>} \cup UNION {{<<i>> \o p : p \in PathsOf(obj.kids[i].v)} : i \in 1..Len(obj.kids)}

RECURSIVE NodeAt(_, _)
NodeAt(obj, p) == IF p = <<>> THEN obj ELSE NodeAt(obj.kids[p[1]].v, Tail(p))

\* Document order of positions: an ancestor before its descendants, then by index.
RECURSIVE PathLess(_, _)
PathLess(p, q) ==
    IF q = <<>> THEN FALSE
    ELSE IF p = <<>> THEN TRUE
    ELSE IF p[1] # q[1] THEN p[1] < q[1]
    ELSE PathLess(Tail(p), Tail(q))

\* Positions whose value is stored under key in a mapping.
KeyPositions(obj, key) ==
    {p \in PathsOf(obj) :
        /\ p # <<>>
        /\ LET parent == NodeAt(obj, SubSeq(p, 1, Len(p) - 1)) IN
           parent.t = "dict" /\ parent.kids[p[Len(p)]].k = key}

----------------------------------------------------------------------------
(* Harness for friendly_reason: every string of at most MaxLen characters *)

MaxLen == 4

FrAlphabet == {"!", " ", "\t", "-", "w", "X", "G", "s"}

RECURSIVE StringsOfLen(_)
StringsOfLen(n) ==
    IF n = 0 THEN {<<>>}
    ELSE {<<c>> \o r : c \in FrAlphabet, r \in StringsOfLen(n - 1)}

\* None and the strings of at most n characters
FrInputs(n) == {NoneV} \cup {StrV(cs) : cs \in UNION {StringsOfLen(k) : k \in 0..n}}

InitReason ==
    /\ fr_raw \in FrInputs(MaxLen)
    /\ fr_out = NoneV
    /\ fr_done = FALSE
    /\ MainIdle /\ FkIdle

\* out = friendly_reason(raw)
ReasonCall ==
    /\ ~fr_done
    /\ fr_out' = friendly_reason(fr_raw)
    /\ fr_done' = TRUE
    /\ UNCHANGED <<fr_raw, mainVars, fkVars>>

NextReason == ReasonCall
SpecReason == InitReason /\ [][NextReason]_vars

\* Only blanks, tabs and the trimmed punctuation, or one shouted code.
OnlyTrimmed(cs) == \A i \in 1..Len(cs) : cs[i] \in {" ", "\t", "-", ":", ";"}
OneCode(cs) ==
    /\ Len(cs) >= 2 /\ cs[1] = "!" /\ IsWord(cs[2])
    /\ \A i \in 2..Len(cs) : cs[i] # " "

\* C10: friendly_reason maps None and "" to None; for a non-empty string the
\* result is a non-empty string, and it is the raw string itself when the
\* cleaning leaves nothing (as it does for trimmed characters or a lone code).
C10_ReasonNeverEmpty ==
    fr_done =>
        /\ ~Truthy(fr_raw) => fr_out = NoneV
        /\ Truthy(fr_raw) =>
              /\ fr_out.t = "str" /\ fr_out.s # <<>>
              /\ CleanReason(fr_raw.s) = <<>> => fr_out = fr_raw
              /\ (OnlyTrimmed(fr_raw.s) \/ OneCode(fr_raw.s)) => fr_out = fr_raw

\* A non-empty raw string that the cleaning empties: a code followed by
\* punctuation, returned as it came.
C10_Witness ==
    /\ fr_done
    /\ fr_raw.t = "str" /\ Len(fr_raw.s) >= 3
    /\ fr_raw.s[1] = "!" /\ fr_raw.s[Len(fr_raw.s)] = "-"
    /\ CleanReason(fr_raw.s) = <<>>
    /\ fr_out = fr_raw

====
